---- MODULE Spec2Model ----
(***************************************************************************)
(* Model of DBViewer.py, the RCSB disulfide browser: the widgets that hold *)
(* the selection state, the callbacks watching them, and the render path   *)
(* (click_plot / render_ss).  One action per user event; each action runs  *)
(* the whole chain of watchers that the event starts, with Python's        *)
(* exception propagation: once a callback raises, the rest of the chain is *)
(* skipped and the widget state assigned so far stays.                     *)
(***************************************************************************)
EXTENDS Integers, Sequences, FiniteSets, TLC

VARIABLES
    rcsb_selector_value,  \* rcsb_selector_widget.value : selected entry id
    ss_options,           \* rcsb_ss_widget.options     : item ids offered
    ss_value,             \* rcsb_ss_widget.value       : selected item id or None
    styles_value,         \* styles_group.value
    styles_disabled,      \* styles_group.disabled
    single_value,         \* single_checkbox.value
    session_args,         \* pn.state.session_args, the "theme" key only
    title_md,             \* title_md.object
    info_md,              \* info_md.object
    output_md,            \* output_md.object
    render_win,           \* the global render_win and its slot [1]
    SSDict,               \* PDB_SS.SSDict: the loaded database, entry id -> ids
    last                  \* history: the event handled last and what it did

vars == <<rcsb_selector_value, ss_options, ss_value, styles_value,
          styles_disabled, single_value, session_args, title_md, info_md,
          output_md, render_win, SSDict, last>>

-----------------------------------------------------------------------------
(* Module-level constants of DBViewer.py *)

None == "None"

_rcsid == "2q7q"

\* a default id that is misspelt, so that it is none of _ssidlist
_default_ss_misspelt == "2q7q_75D_14OD"

_default_ss == "2q7q_75D_140D"

_ssidlist == <<"2q7q_75D_140D", "2q7q_81D_113D", "2q7q_88D_171D",
               "2q7q_90D_138D", "2q7q_91D_135D", "2q7q_98D_129D",
               "2q7q_130D_161D">>

StyleLabels == <<"Split Bonds", "CPK", "Ball and Stick">>

\* the dict `styles` of render_ss
styles ==
    [l \in {"Split Bonds", "CPK", "Ball and Stick"} |->
        CASE l = "Split Bonds" -> "sb"
          [] l = "CPK" -> "cpk"
          [] OTHER -> "bs"]

-----------------------------------------------------------------------------
(* The database PDB_SS, as the callbacks see it.  Load_PDB_SS (line 32)    *)
(* reads it from a file that is no part of the program, so its content is  *)
(* an input of the session: it is chosen when the session starts and never *)
(* changes.  Every database here holds the default entry, a second entry   *)
(* and an entry that owns no disulfide; for the default entry it holds     *)
(* either the seven ids the program has in _ssidlist, or, being another    *)
(* build, all of them but the last.                                        *)

\* a database holding the list ids2q7q for the default entry
SSDictWith(ids2q7q) ==
    [e \in {"2q7q", "4yys", "0nos"} |->
        CASE e = "2q7q" -> ids2q7q
          [] e = "4yys" -> <<"4yys_22A_65A", "4yys_56A_98A">>
          [] OTHER -> << >>]

Databases ==
    {SSDictWith(l) : l \in {_ssidlist, SubSeq(_ssidlist, 1, Len(_ssidlist) - 1)}}

RCSB_list == DOMAIN SSDict

SeqRange(s) == {s[i] : i \in 1..Len(s)}

AllItems == UNION {SeqRange(SSDict[e]) : e \in RCSB_list}

\* the ids rcsb_selector_widget can take: its options are RCSB_list and it
\* is restricted to them (lines 101-102)
EntryInputs == RCSB_list

\* the ids an event handed to get_ss_idlist on its own may carry as
\* event.new: the known ones, and one the database does not hold
EventNewInputs == RCSB_list \cup {"unknown"}

\* the ids an event handed to get_ss_id on its own may carry as event.new:
\* the items of any entry, and an id that is the name of no item
ItemInputs == AllItems \cup {"bogus"}

\* the values the request can carry under the key "theme" (absent: no key)
Absent == <<"absent">>

SessionArgInputs == {Absent, <<"dark">>, <<"light">>, <<"">>}

\* for get_theme on its own: the flag given up to MaxThemeValues times, each
\* time with the marker, another word, nothing, or a near miss of the marker
MaxThemeValues == 3

ThemeValues == {"dark", "light", "", "Dark", "dark "}

ThemeArgInputs ==
    {Absent} \cup UNION {[1..n -> ThemeValues] : n \in 1..MaxThemeValues}

-----------------------------------------------------------------------------
(* Text produced by update_title / update_info / update_output *)

(* A text is a tuple of its parts; Fields(name) stands for the numbers of   *)
(* the disulfide called name, which the database holds.                    *)

Fields(name) == <<"fields of", name>>

TitleOf(name) == <<"## ", name>>

InfoOf(name) == <<"### ", name, "Resolution, Energy, Ca, Cb, Torsion", Fields(name)>>

OutputOf(name) == <<"Ca-Ca, Cb-Cb, Torsion, Resolution, Energy", Fields(name)>>

\* the texts the Markdown panes are constructed with (lines 105-107)
TitlePlaceholder == <<"Title">>

InfoPlaceholder == <<"SS Info">>

OutputPlaceholder == <<"Output goes here">>

CannotFind(ss_id) == <<"Cannot find ss_id ", ss_id, "! Returning!">>

-----------------------------------------------------------------------------
(* The interpreter state the callbacks work on, as one record:             *)
(*   sel, opts, val, style, disabled, single : the widget parameters       *)
(*   args                                    : the session's theme values  *)
(*   title, info, output                     : the Markdown panes          *)
(*   win      : [defined, vtkpan]: whether the global render_win exists,   *)
(*              and the render requests whose plotter slot [1] shows       *)
(*   requests : the calls of ss.plot made so far in this event             *)
(*   calls    : the number of click_plot invocations in this event         *)
(*   plot_ok  : whether the rendering collaborator succeeds when called    *)
(*   raised   : the exception propagating, or "none"                       *)
(* The history variable last records, for the event handled last: its name *)
(* and argument, the selection state, render_win and output text before    *)
(* it, the click_plot invocations and render requests it made, what it     *)
(* raised, the event before it with its requests, and the style that was   *)
(* stored when the view was last switched to multi view.                   *)

Raise(s, exc) == [s EXCEPT !.raised = exc]

\* PDB_SS[key]: the list of disulfides of an entry id, the disulfide of a
\* disulfide name, None for any other key
PDB_SS(key) ==
    IF key \in RCSB_list THEN SSDict[key]
    ELSE IF key \in AllItems THEN key
    ELSE None

\* get_theme taking the flag for dark when any of its values is the marker
get_theme_any(args) ==
    IF args = Absent THEN "default"
    ELSE IF "dark" \in {args[i] : i \in 1..Len(args)} THEN "dark"
    ELSE "default"

\* get_theme(), lines 45-54; args["theme"][0] of an empty list raises
get_theme(args) ==
    IF args = Absent THEN "default"
    ELSE IF Len(args) = 0 THEN "IndexError"
    ELSE IF args[1] = "dark" THEN "dark"
    ELSE "default"

\* update_title, update_info, update_output applied to a Disulfide
update_texts(s, name) ==
    [s EXCEPT !.title = TitleOf(name),
              !.info = InfoOf(name),
              !.output = OutputOf(name)]

\* update_output applied to the message string of line 194: the string has
\* no attribute energy, so line 162 raises before output_md is assigned
update_output_str(s, msg) == Raise(s, "AttributeError")

\* the request with the values of single and light passed the wrong way round
RenderRequest_swapped(s, ss, light) ==
    [itemId |-> ss, style |-> styles[s.style], single |-> light,
     shadows |-> FALSE, light |-> s.single]

\* the request ss.plot(single=, style=, shadows=False, light=) of line 201
RenderRequest(s, ss, light) ==
    [itemId |-> ss, style |-> styles[s.style], single |-> s.single,
     shadows |-> FALSE, light |-> light]

\* the body of render_ss, lines 181-207
render_ss(s) ==
    LET theme == get_theme(s.args)
        light == theme # "dark"
        ss == PDB_SS(s.val)
    IN  IF theme = "IndexError" THEN Raise(s, "IndexError")
        ELSE IF ss = None THEN update_output_str(s, CannotFind(s.val))
        ELSE LET s1 == [s EXCEPT !.requests = Append(@, RenderRequest(s, ss, light))]
             IN  IF ~s.plot_ok THEN Raise(s1, "RenderError")
                 ELSE update_texts(s1, ss)

\* the parameters render_ss is defined with (line 178), and the arguments
\* its two call sites pass (line 64 and line 209)
render_ss_params == <<"clk">>

render_ss_call_args == << >>

\* the call render_ss(): Python binds the arguments before the body runs
call_render_ss(s) ==
    IF Len(render_ss_call_args) # Len(render_ss_params)
    THEN Raise(s, "TypeError")
    ELSE render_ss(s)

\* click_plot handing its event on to render_ss, so that the body of
\* render_ss runs
click_plot_with_arg(s) ==
    LET s1 == render_ss([s EXCEPT !.calls = @ + 1])
    IN  IF s1.raised # "none" THEN s1
        ELSE IF ~s1.win.defined THEN Raise(s1, "NameError")
        ELSE [s1 EXCEPT !.win.vtkpan = <<s1.requests[Len(s1.requests)]>>]

\* click_plot, lines 56-70
click_plot(s) ==
    LET s1 == call_render_ss([s EXCEPT !.calls = @ + 1])
    IN  IF s1.raised # "none" THEN s1
        ELSE IF ~s1.win.defined THEN Raise(s1, "NameError")
        ELSE [s1 EXCEPT !.win.vtkpan = <<s1.requests[Len(s1.requests)]>>]

-----------------------------------------------------------------------------
(* The Select widget rcsb_ss_widget.  Assigning a parameter that changes   *)
(* its value runs the watchers in the order they were registered: first    *)
(* the widget's own synchronisation, which keeps value among the options   *)
(* (the first option when the value is not one of them, None when there    *)
(* are no options), then click_plot, registered at line 141.  A nested     *)
(* assignment runs its watchers to completion before the outer one goes    *)
(* on, and an exception raised by a watcher ends the whole chain.          *)

RECURSIVE SelectSetValue(_, _)
\* rcsb_ss_widget.value = v (lines 141, 176)
SelectSetValue(s, v) ==
    IF v = s.val THEN s
    ELSE LET s1 == [s EXCEPT !.val = v]
             s2 == IF v \in SeqRange(s1.opts) THEN s1
                   ELSE IF s1.opts # << >> THEN SelectSetValue(s1, s1.opts[1])
                   ELSE SelectSetValue(s1, None)
         IN  IF s2.raised # "none" THEN s2 ELSE click_plot(s2)

\* rcsb_ss_widget.options = idlist (line 137)
SelectSetOptions(s, idlist) ==
    IF idlist = s.opts THEN s
    ELSE LET s1 == [s EXCEPT !.opts = idlist]
         IN  IF idlist # << >>
             THEN IF s1.val \in SeqRange(idlist) THEN s1
                  ELSE SelectSetValue(s1, idlist[1])
             ELSE SelectSetValue(s1, None)

\* get_ss_idlist offering the list without its first id (a slice off by one)
get_ss_idlist_sliced(s, rcs_id) ==
    IF rcs_id \notin RCSB_list THEN Raise(s, "TypeError")
    ELSE IF PDB_SS(rcs_id) = << >> THEN SelectSetOptions(s, << >>)
    ELSE SelectSetOptions(s, Tail(PDB_SS(rcs_id)))

\* get_ss_idlist going on with the empty list of line 133 when the lookup
\* finds nothing
get_ss_idlist_lenient(s, rcs_id) ==
    IF rcs_id \notin RCSB_list THEN SelectSetOptions(s, << >>)
    ELSE SelectSetOptions(s, PDB_SS(rcs_id))

\* get_ss_idlist assigning the options only when the list is not empty
get_ss_idlist_guarded(s, rcs_id) ==
    IF rcs_id \notin RCSB_list THEN Raise(s, "TypeError")
    ELSE IF PDB_SS(rcs_id) = << >> THEN s
    ELSE SelectSetOptions(s, PDB_SS(rcs_id))

\* get_ss_idlist, lines 123-138, for an entry id or an id the database does
\* not hold: PDB_SS[rcs_id] of the latter is None, and the comprehension of
\* line 136 raises TypeError, None not being iterable
get_ss_idlist(s, rcs_id) ==
    IF rcs_id \notin RCSB_list THEN Raise(s, "TypeError")
    ELSE SelectSetOptions(s, PDB_SS(rcs_id))

\* get_ss_id refusing an id that is none of the options
get_ss_id_checked(s, new) ==
    IF new \notin SeqRange(s.opts) THEN Raise(s, "InvalidItem")
    ELSE SelectSetValue(s, new)

\* get_ss_id, lines 175-176
get_ss_id(s, new) == SelectSetValue(s, new)

\* update_single putting the style back to the first label when it
\* disables the style control
update_single_reset(s) ==
    click_plot([s EXCEPT !.disabled = (s.single # TRUE),
                         !.style = IF s.single # TRUE THEN StyleLabels[1] ELSE @])

\* update_single without its last line, the call of click_plot
update_single_silent(s) == [s EXCEPT !.disabled = (s.single # TRUE)]

\* update_single marking the style control only after click_plot returned
update_single_late(s) ==
    LET s1 == click_plot(s)
    IN  IF s1.raised # "none" THEN s1
        ELSE [s1 EXCEPT !.disabled = (s.single # TRUE)]

\* update_single, lines 85-96
update_single(s) ==
    click_plot([s EXCEPT !.disabled = (s.single # TRUE)])

-----------------------------------------------------------------------------
(* State and events *)

\* the interpreter state at the start of an event
Machine(ok) ==
    [sel |-> rcsb_selector_value, opts |-> ss_options, val |-> ss_value,
     style |-> styles_value, disabled |-> styles_disabled,
     single |-> single_value, args |-> session_args,
     title |-> title_md, info |-> info_md, output |-> output_md,
     win |-> render_win, requests |-> << >>, calls |-> 0,
     plot_ok |-> ok, raised |-> "none"]

\* the fields of the selection state, as the history keeps them
UIState(s) ==
    [selectedEntry |-> s.sel, itemIds |-> s.opts, selectedItem |-> s.val,
     style |-> s.style, singleView |-> s.single,
     theme |-> get_theme(s.args)]

\* the state an event leaves, and the record of what the event did
Commit(ev, arg, s0, s) ==
    /\ rcsb_selector_value' = s.sel
    /\ ss_options' = s.opts
    /\ ss_value' = s.val
    /\ styles_value' = s.style
    /\ styles_disabled' = s.disabled
    /\ single_value' = s.single
    /\ session_args' = s.args
    /\ title_md' = s.title
    /\ info_md' = s.info
    /\ output_md' = s.output
    /\ render_win' = s.win
    /\ SSDict' = SSDict
    /\ last' = [ev |-> ev, arg |-> arg, pre |-> UIState(s0),
                preWin |-> s0.win, preOutput |-> s0.output,
                calls |-> s.calls, requests |-> s.requests,
                raised |-> s.raised,
                prevEv |-> last.ev, prevRequests |-> last.requests,
                flipStyle |-> IF ev = "ViewModeChanged" /\ ~s.single
                              THEN s0.style ELSE last.flipStyle]

\* the widgets as lines 74-107 construct them
Widgets(args, ok) ==
    [sel |-> _rcsid, opts |-> _ssidlist, val |-> _default_ss,
     style |-> StyleLabels[1], disabled |-> FALSE, single |-> TRUE,
     args |-> args,
     title |-> TitlePlaceholder, info |-> InfoPlaceholder,
     output |-> OutputPlaceholder,
     win |-> [defined |-> FALSE, vtkpan |-> << >>],
     requests |-> << >>, calls |-> 0, plot_ok |-> ok, raised |-> "none"]

\* the module body from line 209 on: the first render, then the pane and
\* render_win are built from its plotter; an exception ends the script
Startup(s0) ==
    LET s1 == call_render_ss(s0)
    IN  IF s1.raised # "none" THEN s1
        ELSE [s1 EXCEPT !.win = [defined |-> TRUE,
                                 vtkpan |-> <<s1.requests[Len(s1.requests)]>>]]

Init ==
    \E db \in Databases, args \in SessionArgInputs, ok \in BOOLEAN :
        LET s0 == Widgets(args, ok)
            s == Startup(s0)
        IN  /\ SSDict = db
            /\ rcsb_selector_value = s.sel
            /\ ss_options = s.opts
            /\ ss_value = s.val
            /\ styles_value = s.style
            /\ styles_disabled = s.disabled
            /\ single_value = s.single
            /\ session_args = s.args
            /\ title_md = s.title
            /\ info_md = s.info
            /\ output_md = s.output
            /\ render_win = s.win
            /\ last = [ev |-> "Startup", arg |-> None, pre |-> UIState(s0),
                       preWin |-> s0.win, preOutput |-> s0.output,
                       calls |-> s.calls, requests |-> s.requests,
                       raised |-> s.raised,
                       prevEv |-> "none", prevRequests |-> << >>,
                       flipStyle |-> s0.style]

\* the user picks or types an entry id: rcsb_selector_widget.value changes
\* and its watcher get_ss_idlist runs (line 140)
EntrySelected(id) ==
    \E ok \in BOOLEAN :
        LET s0 == Machine(ok)
        IN  /\ id # s0.sel
            /\ Commit("EntrySelected", id, s0,
                      get_ss_idlist([s0 EXCEPT !.sel = id], id))

\* the user picks one of the ids the Select offers: rcsb_ss_widget.value
\* changes and its watcher click_plot runs (line 141)
ItemSelected(id) ==
    \E ok \in BOOLEAN :
        LET s0 == Machine(ok)
        IN  /\ id \in SeqRange(s0.opts)
            /\ id # s0.val
            /\ Commit("ItemSelected", id, s0, SelectSetValue(s0, id))

\* styles_group.value changes and its watcher click_plot runs (line 142)
StyleChanged(value) ==
    \E ok \in BOOLEAN :
        LET s0 == Machine(ok)
        IN  /\ value # s0.style
            /\ Commit("StyleChanged", value, s0,
                      click_plot([s0 EXCEPT !.style = value]))

\* single_checkbox.value changes and its watcher update_single runs (line 143)
ViewModeChanged(flag) ==
    \E ok \in BOOLEAN :
        LET s0 == Machine(ok)
        IN  /\ flag # s0.single
            /\ Commit("ViewModeChanged", IF flag THEN "True" ELSE "False", s0,
                      update_single([s0 EXCEPT !.single = flag]))

\* the Refresh button is clicked (line 77)
RefreshRequested ==
    \E ok \in BOOLEAN :
        LET s0 == Machine(ok)
        IN  Commit("RefreshRequested", None, s0, click_plot(s0))

Next ==
    \/ \E id \in EntryInputs : EntrySelected(id)
    \/ \E id \in SeqRange(ss_options) : ItemSelected(id)
    \/ \E value \in SeqRange(StyleLabels) : StyleChanged(value)
    \/ \E flag \in BOOLEAN : ViewModeChanged(flag)
    \/ RefreshRequested

Spec == Init /\ [][Next]_vars

-----------------------------------------------------------------------------
(* get_theme on its own: the session arguments are drawn from             *)
(* ThemeArgInputs, the widgets are as constructed, and the one step calls  *)
(* get_theme and records what it returns.                                  *)

ThemeInit ==
    \E db \in Databases, args \in ThemeArgInputs :
        LET s == Widgets(args, TRUE)
        IN  /\ SSDict = db
            /\ rcsb_selector_value = s.sel
            /\ ss_options = s.opts
            /\ ss_value = s.val
            /\ styles_value = s.style
            /\ styles_disabled = s.disabled
            /\ single_value = s.single
            /\ session_args = s.args
            /\ title_md = s.title
            /\ info_md = s.info
            /\ output_md = s.output
            /\ render_win = s.win
            /\ last = [ev |-> "none", result |-> "none"]

GetTheme ==
    /\ last.ev = "none"
    /\ last' = [ev |-> "get_theme", result |-> get_theme(session_args)]
    /\ UNCHANGED <<rcsb_selector_value, ss_options, ss_value, styles_value,
                   styles_disabled, single_value, session_args, title_md,
                   info_md, output_md, render_win, SSDict>>

ThemeSpec == ThemeInit /\ [][GetTheme]_vars

-----------------------------------------------------------------------------
(* render_ss on its own: the widgets hold any selection the session can    *)
(* be in (an entry of the database; as item ids the list the database      *)
(* holds for it or, for the default entry, the list _ssidlist the Select   *)
(* is constructed with at line 74 and keeps until the first entry change;  *)
(* one of the item ids selected, or None when there are none; any style    *)
(* and view, the style control marked accordingly), and the one step calls *)
(* render_ss(clk) with an argument, the rendering collaborator succeeding  *)
(* or failing.                                                             *)

RenderInit ==
    \E db \in Databases :
    \E e \in DOMAIN db :
    \E opts \in {db[e]} \cup (IF e = _rcsid THEN {_ssidlist} ELSE {}) :
    \E val \in SeqRange(opts) \cup {None},
       style \in SeqRange(StyleLabels), single \in BOOLEAN,
       args \in SessionArgInputs :
        LET s == [Widgets(args, TRUE) EXCEPT
                     !.sel = e, !.opts = opts, !.val = val,
                     !.style = style, !.single = single,
                     !.disabled = ~single]
        IN  /\ val = None => opts = << >>
            /\ SSDict = db
            /\ rcsb_selector_value = s.sel
            /\ ss_options = s.opts
            /\ ss_value = s.val
            /\ styles_value = s.style
            /\ styles_disabled = s.disabled
            /\ single_value = s.single
            /\ session_args = s.args
            /\ title_md = s.title
            /\ info_md = s.info
            /\ output_md = s.output
            /\ render_win = s.win
            /\ last = [ev |-> "none", arg |-> None, pre |-> UIState(s),
                       preWin |-> s.win, preOutput |-> s.output,
                       calls |-> 0, requests |-> << >>, raised |-> "none",
                       prevEv |-> "none", prevRequests |-> << >>,
                       flipStyle |-> s.style]

RenderSS ==
    \E ok \in BOOLEAN :
        LET s0 == Machine(ok)
        IN  /\ last.ev = "none"
            /\ Commit("render_ss", None, s0, render_ss(s0))

RenderSpec == RenderInit /\ [][RenderSS]_vars

(* get_ss_idlist on its own: from the same states, the one step calls      *)
(* get_ss_idlist(event) with an event whose new value is an entry id or an *)
(* id the database does not hold.  The selector widget, which admits no    *)
(* such id, is not assigned.                                               *)

GetSSIdList ==
    \E id \in EventNewInputs, ok \in BOOLEAN :
        LET s0 == Machine(ok)
        IN  /\ last.ev = "none"
            /\ Commit("get_ss_idlist", id, s0, get_ss_idlist(s0, id))

IdListSpec == RenderInit /\ [][GetSSIdList]_vars

(* get_ss_id on its own: from the same states, the one step calls          *)
(* get_ss_id(event) with an event whose new value is an item of the        *)
(* offered list, an item of another entry, or the name of no item.  No     *)
(* widget is wired to get_ss_id, and the Select itself emits none but its  *)
(* options.                                                                *)

GetSSId ==
    \E id \in ItemInputs, ok \in BOOLEAN :
        LET s0 == Machine(ok)
        IN  /\ last.ev = "none"
            /\ Commit("get_ss_id", id, s0, get_ss_id(s0, id))

ItemIdSpec == RenderInit /\ [][GetSSId]_vars

-----------------------------------------------------------------------------
(* Properties *)

UINow ==
    [selectedEntry |-> rcsb_selector_value, itemIds |-> ss_options,
     selectedItem |-> ss_value, style |-> styles_value,
     singleView |-> single_value, theme |-> get_theme(session_args)]

\* C1: in every reachable state the selected item is one of the item ids
\* offered, or there is no selected item and no item id.
C1_SelectedItemInItemIds ==
    \/ ss_value \in SeqRange(ss_options)
    \/ ss_value = None /\ ss_options = << >>

\* an entry change has replaced the list, and the item selected before it,
\* which is not in the new list, has been replaced by one that is
C1_Witness ==
    /\ last.ev = "EntrySelected"
    /\ ss_options # last.pre.itemIds
    /\ last.pre.selectedItem \notin SeqRange(ss_options)
    /\ ss_value \in SeqRange(ss_options)

\* C2: after EntrySelected(e) for an entry with a non-empty item list, the
\* item ids are that list and the selected item is its first id.
C2_DefaultSelection ==
    (last.ev = "EntrySelected" /\ SSDict[last.arg] # << >>)
    => /\ ss_options = SSDict[last.arg]
       /\ ss_value = SSDict[last.arg][1]

\* the entry with two items was selected while an item of the default
\* entry, not its first, was the selected one
C2_Witness ==
    /\ last.ev = "EntrySelected"
    /\ last.arg = "4yys"
    /\ last.pre.selectedItem = "2q7q_90D_138D"
    /\ ss_value = "4yys_22A_65A"

\* C3 as stated: between events, the initial state included, the item ids
\* offered are exactly the ids the database holds for the selected entry,
\* never those of an entry selected before.
C3_Original ==
    /\ rcsb_selector_value \in RCSB_list
    /\ ss_options = SSDict[rcsb_selector_value]

\* C4: get_ss_idlist for an id the database does not hold fails in the
\* lookup, leaves the item ids and the selected item as they were, and runs
\* no render invocation.
C4_UnknownEntryAborts ==
    (last.ev = "get_ss_idlist" /\ last.arg \notin RCSB_list)
    => /\ last.raised = "TypeError"
       /\ ss_options = last.pre.itemIds
       /\ ss_value = last.pre.selectedItem
       /\ last.calls = 0
       /\ last.requests = << >>
       /\ render_win = last.preWin

\* get_ss_idlist was called for an unknown id while the second entry and
\* its second item were selected
C4_Witness ==
    /\ last.ev = "get_ss_idlist"
    /\ last.arg = "unknown"
    /\ last.pre.selectedEntry = "4yys"
    /\ ss_value = "4yys_56A_98A"
    /\ ss_options = SSDict["4yys"]
    /\ last.raised = "TypeError"

\* C6 as stated: when a render invocation runs while the selected item is
\* not found in the database, no renderer call is made, the message that
\* the id cannot be found is shown in the output text, and render_win is
\* left as it was.
C6_Original ==
    (last.calls > 0 /\ ss_value \notin AllItems)
    => /\ last.requests = << >>
       /\ output_md = CannotFind(ss_value)
       /\ render_win = last.preWin

\* C7 as stated: a style change made in multi view is followed by a render
\* request whose style is the one that was stored when the view was
\* switched to multi view, not the newly stored one.
C7_Original ==
    (last.ev = "StyleChanged" /\ ~single_value)
    => /\ last.requests # << >>
       /\ \A i \in 1..Len(last.requests) :
              last.requests[i].style = styles[last.flipStyle]

\* C8 as stated: RefreshRequested changes no field of the selection state
\* and produces a render request, and the second of two refreshes in a row
\* produces the same request as the first.
C8_Original ==
    last.ev = "RefreshRequested"
    => /\ UINow = last.pre
       /\ Len(last.requests) = 1
       /\ (last.prevEv = "RefreshRequested"
              => last.requests = last.prevRequests)

\* C9 as stated: when EntrySelected(e) yields an empty item list, the
\* selected item is cleared, no render invocation and no renderer call is
\* made, and render_win is left as it was.
C9_Original ==
    (last.ev = "EntrySelected" /\ SSDict[last.arg] = << >>)
    => /\ ss_value = None
       /\ last.calls = 0
       /\ last.requests = << >>
       /\ render_win = last.preWin

\* C9 amended: when EntrySelected(e) yields an empty item list, the item
\* ids and the selected item are cleared, no renderer call is made and
\* render_win is left as it was; the cascade is not aborted before the
\* render invocation: clearing a selected item runs click_plot once, which
\* raises before it reaches the renderer.
C9_EmptySelection ==
    (last.ev = "EntrySelected" /\ SSDict[last.arg] = << >>)
    => /\ ss_options = << >>
       /\ ss_value = None
       /\ last.calls = (IF last.pre.selectedItem = None THEN 0 ELSE 1)
       /\ (last.calls > 0 => last.raised # "none")
       /\ last.requests = << >>
       /\ render_win = last.preWin

\* the entry without items was selected while an item was selected
C9_Witness ==
    /\ last.ev = "EntrySelected"
    /\ last.arg = "0nos"
    /\ last.pre.selectedItem = "4yys_56A_98A"
    /\ ss_value = None
    /\ last.calls = 1

C11_ThemeResolver ==
    last.ev = "get_theme"
    => /\ last.result \in {"dark", "default"}
       /\ last.result = "dark"
            <=> (session_args # Absent /\ Head(session_args) = "dark")

\* get_theme has answered default for a flag whose first value is not the
\* marker although a later value is
C11_Witness ==
    /\ last.ev = "get_theme"
    /\ session_args = <<"Dark", "dark">>
    /\ last.result = "default"

\* C12 as stated: at session start the entry 2q7q and its first item
\* 2q7q_75D_140D are selected, the style is Split Bonds, the view is single,
\* and the first render has completed with the request for that item, style
\* and view, so that render_win shows its surface before any user event.
C12_Original ==
    last.ev = "Startup"
    => /\ rcsb_selector_value = "2q7q"
       /\ ss_value = "2q7q_75D_140D"
       /\ ss_value = ss_options[1]
       /\ styles_value = "Split Bonds"
       /\ single_value = TRUE
       /\ last.raised = "none"
       /\ Len(last.requests) = 1
       /\ last.requests[1].itemId = "2q7q_75D_140D"
       /\ last.requests[1].style = styles["Split Bonds"]
       /\ last.requests[1].single = TRUE
       /\ render_win = [defined |-> TRUE, vtkpan |-> last.requests]

\* C13: each ItemSelected, StyleChanged, ViewModeChanged and
\* RefreshRequested event, and each EntrySelected event of an entry with a
\* non-empty item list, invokes click_plot exactly once, and nothing of the
\* cascade runs after it.
C13_RenderTriggeredOnce ==
    (\/ last.ev \in {"ItemSelected", "StyleChanged", "ViewModeChanged",
                      "RefreshRequested"}
     \/ /\ last.ev = "EntrySelected"
        /\ SSDict[last.arg] # << >>)
    => last.calls = 1

\* the view was switched to multi view, and click_plot ran once
C13_Witness ==
    /\ last.ev = "ViewModeChanged"
    /\ ~single_value
    /\ last.pre.selectedEntry = "4yys"
    /\ last.calls = 1

\* C16 as stated: in every state after session start render_win holds
\* exactly one render surface.
C16_Original ==
    /\ render_win.defined
    /\ Len(render_win.vtkpan) = 1

\* C17: ViewModeChanged(flag) changes, of the selection state, the view flag
\* only: the stored style, the selected entry, the item ids and the
\* selected item are as before, and after a switch to multi view and
\* straight back the stored style is the one chosen before the switch.
C17_ViewModeFrame ==
    last.ev = "ViewModeChanged"
    => /\ single_value # last.pre.singleView
       /\ UINow = [last.pre EXCEPT !.singleView = single_value]
       /\ (last.prevEv = "ViewModeChanged" /\ single_value)
              => styles_value = last.flipStyle

\* the view was switched to multi and straight back while CPK was the
\* stored style, and CPK is still stored
C17_Witness ==
    /\ last.ev = "ViewModeChanged"
    /\ last.prevEv = "ViewModeChanged"
    /\ single_value
    /\ last.flipStyle = "CPK"
    /\ styles_value = "CPK"
    /\ rcsb_selector_value = "4yys"

\* C18: between events the style control is disabled exactly when the view
\* is not the single view, also when the render invocation that
\* ViewModeChanged started has failed.
C18_StyleControlMark == styles_disabled = ~single_value

\* the view was switched to multi view, the render invocation raised, and
\* the style control is disabled
C18_Witness ==
    /\ last.ev = "ViewModeChanged"
    /\ last.calls = 1
    /\ last.raised # "none"
    /\ ~single_value
    /\ styles_disabled

\* C19: between events the title, info and output texts describe the item
\* whose surface render_win shows, and describe no item when render_win
\* shows none: no event, whether it succeeded or failed, leaves the texts
\* of one item beside the surface of another or beside no surface, nor a
\* surface beside texts that are not those of its item.
C19_TextsMatchSurface ==
    IF render_win.defined /\ render_win.vtkpan # << >>
    THEN /\ title_md = TitleOf(render_win.vtkpan[1].itemId)
         /\ info_md = InfoOf(render_win.vtkpan[1].itemId)
         /\ output_md = OutputOf(render_win.vtkpan[1].itemId)
    ELSE /\ title_md = TitlePlaceholder
         /\ info_md = InfoPlaceholder
         /\ output_md = OutputPlaceholder

\* another item was selected, the render invocation this started has
\* failed, and neither the texts nor render_win have been touched
C19_Witness ==
    /\ last.ev = "ItemSelected"
    /\ ss_value = "2q7q_88D_171D"
    /\ last.calls = 1
    /\ last.raised # "none"
    /\ title_md = TitlePlaceholder
    /\ output_md = last.preOutput
    /\ render_win = last.preWin

\* C15: every render request that render_ss builds carries the selected
\* item as itemId and the view flag as single, has shadows false, and has
\* light true exactly when the theme is default and false exactly when it
\* is dark.
C15_RenderRequest ==
    last.ev = "render_ss"
    => \A i \in 1..Len(last.requests) :
          /\ last.requests[i].itemId = ss_value
          /\ last.requests[i].single = single_value
          /\ last.requests[i].shadows = FALSE
          /\ last.requests[i].light = TRUE
                <=> get_theme(session_args) = "default"
          /\ last.requests[i].light = FALSE
                <=> get_theme(session_args) = "dark"

\* render_ss has built the request for an item of the second entry in
\* multi view under the dark theme
C15_Witness ==
    /\ last.ev = "render_ss"
    /\ Len(last.requests) = 1
    /\ ss_value = "4yys_56A_98A"
    /\ ~single_value
    /\ session_args = <<"dark">>
    /\ last.requests[1].light = FALSE
    /\ last.requests[1].itemId = "4yys_56A_98A"

====
